---- MODULE Spec2Model ----
(***************************************************************************)
(* The download manager (bt_dm) of yabtorrent: the mediator between peer   *)
(* connections, the piece database, the piece selector, the blacklist, the *)
(* leeching choker and the job queue (src/bt_download_manager.c).          *)
(*                                                                         *)
(* The DM's collaborators (peer manager, peer connection, handshaker,      *)
(* message handler, piece, selector, blacklist) live outside               *)
(* bt_download_manager.c; each is modelled by the behaviour the            *)
(* specification gives it, and the DM's own functions are translated from  *)
(* their code.  Every C function is an operator from a DM state record S   *)
(* to the DM state after the call.                                         *)
(***************************************************************************)
EXTENDS Integers, Sequences, FiniteSets, TLC

VARIABLES
    pm,          \* peer manager: the set of peers it holds
    nethandle,   \* peer -> net handle (NULL when none was assigned)
    flags,       \* peer -> flags of its peer connection
    mh,          \* peer -> "none" | "handshaker" | "msghandler"
    hsPos,       \* peer -> number of handshake fields its handshaker consumed
    pending,     \* peer -> blocks requested from it and not yet answered
    lchoke,      \* peer connections registered with the leeching choker
    sel,         \* the piece selector (me->ips / me->pselector)
    pdb,         \* the piece database (me->ipdb / me->pdb)
    sc,          \* pieces_completed: indices the SparseCounter marks complete
    jobs,        \* the job queue: a sequence of PollBlock jobs (their peers)
    suspected,   \* blacklist: SUSPECTED edges <<piece, peer>>
    banned,      \* blacklist: BANNED peers
    last,        \* what the last entry point did and returned
    haves,       \* peer -> HAVE messages sent to it by the last entry point
    hist,        \* history: what has happened to the blacklist and the piece db
    stats,       \* the host's bt_dm_stats_t: npeers_size and npeers
    tick,        \* what the last periodic() did, in order
    thr,         \* where the I/O thread and the DM thread are, and the job lock
    test         \* the unit tests' piece database, bitfield and polled piece

vars == <<pm, nethandle, flags, mh, hsPos, pending, lchoke, sel, pdb, sc, jobs,
          suspected, banned, last, haves, hist, stats, tick, thr, test>>

-----------------------------------------------------------------------------
(* Bounds and configuration                                                *)

\* number of pieces of the torrent (config "npieces" as the host sets it)
NPieces == 2
\* number of blocks in a piece
NBlocks == 2
\* the job queue is unbounded in the code; the model stops offering at this length
MaxJobs == 2
\* config "max_pending_requests" as the host sets it (bt_dm_new's default is "10")
max_pending_requests == 2

NULL == 0
\* me->am_seeding: zeroed by bt_dm_new and never assigned afterwards
am_seeding == 0
\* config "shutdown_when_complete"
shutdown_when_complete == 0
\* set_piece_db calls the model follows
MaxInstalls == 1
\* pollblock calls the model follows when it records the order of the jobs
MaxOffered == 3
\* config "pwp_listen_port"
ListenPort == 6881
\* config "my_ip", as a string of abstract characters
MyIp == <<1, 2>>

\* The endpoints the host may name: 1 is ourselves, 2 has an ip that is a
\* proper prefix of my_ip on our port, 3 and 4 are remote peers.
Peers == 1..4
EndpointIp == <<MyIp, <<1>>, <<2>>, MyIp>>
EndpointPort == <<ListenPort, ListenPort, ListenPort, ListenPort + 1>>
\* The host's net handle for the connection to endpoint e is e itself; one more
\* handle belongs to no connection the DM knows.
StrayHandle == 5
NetHandles == Peers \cup {StrayHandle}

Pieces == 0..(NPieces - 1)
Blocks == 0..(NBlocks - 1)
AllBlocks == Pieces \X Blocks

HANDSHAKE_RECEIVED == "HANDSHAKE_RECEIVED"
FAILED_CONNECTION == "FAILED_CONNECTION"
PEER_CHOKING == "PEER_CHOKING"

\* parts of the BitTorrent handshake: the protocol header (pstrlen, pstr and the
\* reserved bytes), the infohash, the peer_id
HandshakeFields == 3
\* the parts the handshaker validates: the protocol header and the infohash
ValidatedFields == {1, 2}

-----------------------------------------------------------------------------
(* libc                                                                    *)

CharAt(s, i) == IF i <= Len(s) THEN s[i] ELSE 0

RECURSIVE strncmpFrom(_, _, _, _)
strncmpFrom(a, b, i, n) ==
    IF i > n THEN 0
    ELSE IF CharAt(a, i) # CharAt(b, i) THEN CharAt(a, i) - CharAt(b, i)
    ELSE IF CharAt(a, i) = 0 THEN 0
    ELSE strncmpFrom(a, b, i + 1, n)

strncmp(a, b, n) == strncmpFrom(a, b, 1, n)

-----------------------------------------------------------------------------
(* The DM state as a record                                                *)

NoSelector == [set |-> FALSE, peers |-> {}, peerHave |-> [p \in Peers |-> {}],
               have |-> {}, polled |-> {}]
NewSelector == [NoSelector EXCEPT !.set = TRUE]

FreshPiece == [blocks |-> [b \in Blocks |-> "MISSING"], bad |-> FALSE, peers |-> {}]
CompletePiece == [blocks |-> [b \in Blocks |-> "RECEIVED"], bad |-> FALSE, peers |-> {}]
NoPieceDb == [set |-> FALSE, pieces |-> [i \in Pieces |-> FreshPiece]]

\* "no result": write_block or the handshaker was not called
NoResult == 9

NoHaves == [p \in Peers |-> 0]

\* an entry of the tick's log: a job was dispatched for peer p, p's
\* pc.periodic() ran, or the stats were collected
Event(e, p) == [e |-> e, p |-> p]

Cur == [pm |-> pm, nethandle |-> nethandle, flags |-> flags, mh |-> mh,
        hsPos |-> hsPos, pending |-> pending, lchoke |-> lchoke, sel |-> sel,
        pdb |-> pdb, sc |-> sc, jobs |-> jobs, suspected |-> suspected,
        banned |-> banned, haves |-> NoHaves, hist |-> hist,
        stats |-> stats, log |-> <<>>,
        halt |-> FALSE, ret |-> 0, hsres |-> NoResult, mres |-> NoResult,
        wres |-> NoResult, bf |-> 0, sendres |-> NoResult, order |-> "none"]

-----------------------------------------------------------------------------
(* Peer manager                                                            *)

bt_peermanager_nethandle_to_peer(S, h) ==
    IF \E p \in S.pm : S.nethandle[p] = h
    THEN CHOOSE p \in S.pm : S.nethandle[p] = h
    ELSE NULL

bt_peermanager_count(S) == Cardinality(S.pm)

-----------------------------------------------------------------------------
(* Piece selector (the interface of section 4.5; any strategy)             *)

selector_add_peer(s, p) ==
    [s EXCEPT !.peers = @ \cup {p}, !.peerHave[p] = {}]

selector_remove_peer(s, p) ==
    [s EXCEPT !.peers = @ \ {p}, !.peerHave[p] = {}]

selector_have_piece(s, idx) == [s EXCEPT !.have = @ \cup {idx}]

selector_peer_have_piece(s, p, idx) ==
    IF p \in s.peers THEN [s EXCEPT !.peerHave[p] = @ \cup {idx}] ELSE s

selector_peer_giveback_piece(s, p, idx) == [s EXCEPT !.polled = @ \ {idx}]

\* the indices poll_piece may return for p: the peer has them, we lack them,
\* and they are not handed out; poll_piece returns -1 exactly when there is none
selector_eligible(s, p) ==
    IF p \in s.peers THEN s.peerHave[p] \ (s.have \cup s.polled) ELSE {}

selector_poll_piece(s, idx) == [s EXCEPT !.polled = @ \cup {idx}]

-----------------------------------------------------------------------------
(* Piece                                                                   *)

bt_piece_is_complete(pce) ==
    (\A b \in Blocks : pce.blocks[b] = "RECEIVED") /\ ~pce.bad

bt_piece_is_fully_requested(pce) ==
    \A b \in Blocks : pce.blocks[b] # "MISSING"

bt_piece_num_peers(pce) == Cardinality(pce.peers)

\* the next MISSING block is marked REQUESTED
bt_piece_next_missing(pce) ==
    CHOOSE b \in Blocks : /\ pce.blocks[b] = "MISSING"
                          /\ \A c \in Blocks : pce.blocks[c] = "MISSING" => b <= c

bt_piece_poll_block_request(pce) ==
    [pce EXCEPT !.blocks[bt_piece_next_missing(pce)] = "REQUESTED"]

bt_piece_giveback_block(pce, b) ==
    IF pce.blocks[b] = "REQUESTED" THEN [pce EXCEPT !.blocks[b] = "MISSING"] ELSE pce

bt_piece_drop_download_progress(pce) ==
    [pce EXCEPT !.blocks = [b \in Blocks |-> "MISSING"], !.bad = FALSE]

\* write_block: 0 on a write error (the block remains MISSING), 2 when the
\* piece is now complete and its checksum matches, -1 when all blocks are
\* there and it does not, 1 otherwise
bt_piece_write_block(pce, b, dataOk, peer, ioOk) ==
    IF ~ioOk THEN [piece |-> [pce EXCEPT !.blocks[b] = "MISSING"], res |-> 0]
    ELSE LET w == [pce EXCEPT !.blocks[b] = "RECEIVED",
                              !.bad = @ \/ ~dataOk,
                              !.peers = @ \cup {peer}]
         IN  [piece |-> w,
              res |-> IF \E c \in Blocks : w.blocks[c] # "RECEIVED" THEN 1
                      ELSE IF w.bad THEN -1 ELSE 2]

-----------------------------------------------------------------------------
(* Blacklist                                                               *)

bt_blacklist_add_peer(S, idx, peer) == [S EXCEPT !.banned = @ \cup {peer}]

SuspectedPieces(susp, peer) == {i \in Pieces : <<i, peer>> \in susp}

bt_blacklist_add_peer_as_potentially_blacklisted(S, idx, peer) ==
    LET susp == S.suspected \cup {<<idx, peer>>}
    IN  [S EXCEPT !.suspected = susp,
                  !.banned = IF Cardinality(SuspectedPieces(susp, peer)) >= 2
                             THEN @ \cup {peer} ELSE @]

-----------------------------------------------------------------------------
(* Peer connection: what the DM uses of it                                 *)

pwp_conn_flag_is_set(S, p, flag) == flag \in S.flags[p]

pwp_conn_set_state(S, p, flag) == [S EXCEPT !.flags[p] = @ \cup {flag}]

pwp_conn_send_have(S, p, idx) == [S EXCEPT !.haves[p] = @ + 1]

\* the block is requested from the peer and joins its pending requests
pwp_conn_offer_block(S, p, blk) == [S EXCEPT !.pending[p] = @ \cup {blk}]

-----------------------------------------------------------------------------
(* Job queue                                                               *)

\* llqueue_offer; the model halts instead of growing the queue past MaxJobs
offer_job(S, j) ==
    IF Len(S.jobs) >= MaxJobs THEN [S EXCEPT !.halt = TRUE]
    ELSE [S EXCEPT !.jobs = Append(@, j)]

\* the queue drops its newest job
poll_job_newest(S) ==
    [S EXCEPT !.jobs = IF @ = <<>> THEN @ ELSE SubSeq(@, 1, Len(@) - 1)]

\* llqueue_poll: the head of the queue leaves it; an empty queue stays empty
poll_job(S) == [S EXCEPT !.jobs = IF @ = <<>> THEN @ ELSE Tail(@)]

FUNC_peerconn_pollblock(S, peer) == offer_job(S, peer)

-----------------------------------------------------------------------------
(* Callbacks the DM gives to its peer connections                          *)

\* __FUNC_peerconn_send_have without the HANDSHAKE_RECEIVED check
FUNC_peerconn_send_have_unchecked(S, p, idx) == pwp_conn_send_have(S, p, idx)

FUNC_peerconn_send_have(S, p, idx) ==
    IF ~pwp_conn_flag_is_set(S, p, HANDSHAKE_RECEIVED) THEN S
    ELSE pwp_conn_send_have(S, p, idx)

\* bt_peermanager_forall(me->pm, me, p, __FUNC_peerconn_send_have)
RECURSIVE forall_send_have(_, _, _)
forall_send_have(S, todo, idx) ==
    IF todo = {} THEN S
    ELSE LET q == CHOOSE q \in todo : TRUE
         IN  forall_send_have(FUNC_peerconn_send_have(S, q, idx), todo \ {q}, idx)

\* the loop over bt_piece_get_peers in the invalid-piece case
RECURSIVE forall_suspect(_, _, _)
forall_suspect(S, todo, idx) ==
    IF todo = {} THEN S
    ELSE LET q == CHOOSE q \in todo : TRUE
         IN  forall_suspect(
                 bt_blacklist_add_peer_as_potentially_blacklisted(S, idx, q),
                 todo \ {q}, idx)

\* the invalid-piece case with every contributor blacklisted outright
pushblock_invalid_piece_bans_all(S, peer, idx) ==
    LET pce == S.pdb.pieces[idx]
        S1 == [S EXCEPT !.banned = @ \cup pce.peers]
    IN  IF 1 = bt_piece_num_peers(pce) THEN S1
        ELSE [S1 EXCEPT !.pdb.pieces[idx] = bt_piece_drop_download_progress(pce),
                        !.sel = selector_peer_giveback_piece(@, NULL, idx),
                        !.halt = @ \/ ~S.sel.set]

\* case -1 of the switch on bt_piece_write_block's result
pushblock_invalid_piece(S, peer, idx) ==
    LET pce == S.pdb.pieces[idx] IN
    IF 1 = bt_piece_num_peers(pce)
    THEN bt_blacklist_add_peer(S, idx, peer)
    ELSE LET S1 == forall_suspect(S, pce.peers, idx)
         IN  [S1 EXCEPT !.pdb.pieces[idx] = bt_piece_drop_download_progress(pce),
                        !.sel = selector_peer_giveback_piece(@, NULL, idx),
                        !.halt = @ \/ ~S.sel.set]

\* case 2 of the switch on bt_piece_write_block's result
pushblock_complete_piece(S, idx) ==
    forall_send_have(
        [S EXCEPT !.sel = selector_have_piece(@, idx),
                  !.sc = @ \cup {idx},
                  !.halt = @ \/ ~S.sel.set],
        S.pm, idx)

FUNC_peerconn_pushblock(S, peer, blk, dataOk, ioOk) ==
    IF ~S.pdb.set THEN [S EXCEPT !.halt = TRUE]
    ELSE LET idx == blk[1]
             w == bt_piece_write_block(S.pdb.pieces[idx], blk[2], dataOk, peer, ioOk)
             S1 == [S EXCEPT !.pdb.pieces[idx] = w.piece, !.wres = w.res, !.ret = 1]
         IN  CASE w.res = 2 -> pushblock_complete_piece(S1, idx)
               [] w.res = -1 -> pushblock_invalid_piece(S1, peer, idx)
               [] OTHER -> S1

FUNC_peerconn_peer_have_piece(S, peer, idx) ==
    [S EXCEPT !.sel = selector_peer_have_piece(@, peer, idx),
              !.halt = @ \/ ~S.sel.set]

\* b->len of a block <<piece_idx, block, len>>.  The blocks the DM keeps as
\* pending, <<piece_idx, block>>, carry the positive length that
\* bt_piece_poll_block_request chose.
block_len(blk) == IF Len(blk) = 3 THEN blk[3] ELSE 1

\* the callback gives the block back whatever its length
FUNC_peerconn_giveback_block_any_len(S, peer, blk) ==
    IF ~S.pdb.set THEN [S EXCEPT !.halt = TRUE]
    ELSE [S EXCEPT !.pdb.pieces[blk[1]] = bt_piece_giveback_block(@, blk[2]),
                   !.sel = selector_peer_giveback_piece(@, peer, blk[1]),
                   !.halt = @ \/ ~S.sel.set]

FUNC_peerconn_giveback_block(S, peer, blk) ==
    IF block_len(blk) < 0 THEN S
    ELSE IF ~S.pdb.set THEN [S EXCEPT !.halt = TRUE]
    ELSE [S EXCEPT !.pdb.pieces[blk[1]] = bt_piece_giveback_block(@, blk[2]),
                   !.sel = selector_peer_giveback_piece(@, peer, blk[1]),
                   !.halt = @ \/ ~S.sel.set]

-----------------------------------------------------------------------------
(* Jobs                                                                    *)

\* while (!bt_piece_is_fully_requested(pce)) { poll_block_request; offer_block }
RECURSIVE request_blocks(_, _, _)
request_blocks(S, peer, idx) ==
    LET pce == S.pdb.pieces[idx] IN
    IF bt_piece_is_fully_requested(pce) THEN S
    ELSE LET b == bt_piece_next_missing(pce)
             S1 == [S EXCEPT !.pdb.pieces[idx] = bt_piece_poll_block_request(pce)]
         IN  request_blocks(pwp_conn_offer_block(S1, peer, <<idx, b>>), peer, idx)

\* The selector's answers are the choices of its strategy: `skipped' are the
\* indices it returned whose pieces turned out complete (each is reported with
\* have_piece and the loop continues), `target' is the index the loop ends on,
\* or -1.
dispatch_job_choices(S, peer) ==
    LET elig == selector_eligible(S.sel, peer)
        done == {i \in elig : bt_piece_is_complete(S.pdb.pieces[i])}
    IN  IF elig \ done = {}
        THEN {[skipped |-> done, target |-> -1]}
        ELSE {[skipped |-> k, target |-> t] : k \in SUBSET done, t \in elig \ done}

dispatch_job(S, peer, choice) ==
    IF ~S.sel.set \/ ~S.pdb.set THEN [S EXCEPT !.halt = TRUE]
    ELSE LET S1 == [S EXCEPT !.sel.polled = @ \cup choice.skipped,
                             !.sel.have = @ \cup choice.skipped,
                             !.log = Append(@, Event("job", peer))]
         IN  IF choice.target = -1 THEN S1
             ELSE request_blocks(
                      [S1 EXCEPT !.sel = selector_poll_piece(@, choice.target)],
                      peer, choice.target)

-----------------------------------------------------------------------------
(* Peers                                                                   *)

bt_dm_remove_peer(S, peer) ==
    IF peer \notin S.pm                 \* bt_peermanager_remove_peer returns 0
    THEN [S EXCEPT !.ret = 0]
    ELSE [S EXCEPT !.pm = @ \ {peer},
                   !.sel = selector_remove_peer(@, peer),
                   !.halt = @ \/ ~S.sel.set,
                   !.ret = 1]

\* is_self with strncmp's result read as "equal when non-zero"
is_self_inverted(ip, ip_len, port) ==
    strncmp(ip, MyIp, ip_len) # 0 /\ port = ListenPort

\* "ensure we aren't adding ourselves as a peer"
is_self(ip, ip_len, port) ==
    strncmp(ip, MyIp, ip_len) = 0 /\ port = ListenPort

\* e: the endpoint (ip, port); nh: the net handle or NULL; connectOk: what the
\* host's peer_connect callback returns when it is called
bt_dm_add_peer(S, peer_id, e, nh, connectOk) ==
    LET ip == EndpointIp[e]
        port == EndpointPort[e]
    IN
    IF is_self(ip, Len(ip), port)
    THEN [S EXCEPT !.ret = NULL]
    ELSE IF e \in S.pm                  \* bt_peermanager_add_peer returns NULL
    THEN [S EXCEPT !.ret = NULL]
    ELSE LET S1 == [S EXCEPT !.pm = @ \cup {e},
                             !.sel = IF S.sel.set THEN selector_add_peer(@, e) ELSE @,
                             !.nethandle[e] = nh,
                             !.flags[e] = {PEER_CHOKING},
                             !.pending[e] = {},
                             !.mh[e] = "none",
                             !.hsPos[e] = 0]
         IN  IF nh = NULL /\ ~connectOk
             THEN [S1 EXCEPT !.ret = NULL]
             ELSE [S1 EXCEPT !.nethandle[e] = e,
                             !.mh[e] = "handshaker",
                             !.lchoke = @ \cup {e},
                             !.ret = e]

bt_dm_peer_connect_fail(S, h) ==
    LET peer == bt_peermanager_nethandle_to_peer(S, h) IN
    IF peer = NULL THEN S
    ELSE pwp_conn_set_state(S, peer, FAILED_CONNECTION)

bt_dm_peer_connect(S, h, e) ==
    LET peer == bt_peermanager_nethandle_to_peer(S, h) IN
    IF peer = NULL
    THEN LET S1 == bt_dm_add_peer(S, <<>>, e, h, TRUE)
         IN  IF S1.ret = NULL THEN [S1 EXCEPT !.ret = 0] ELSE [S1 EXCEPT !.ret = 1]
    ELSE [S EXCEPT !.ret = 1]

-----------------------------------------------------------------------------
(* Inbound bytes                                                           *)

\* A buffer is the rest of the handshake (one token per field: "H" is a
\* field as we expect it, "X" is anything else) followed by at most one
\* peer-wire message.
Msg(t, idx, b, dataOk, ioOk) ==
    [t |-> t, idx |-> idx, b |-> b, dataOk |-> dataOk, ioOk |-> ioOk]
NoMsg == Msg("NONE", 0, 0, TRUE, TRUE)
BadMsg == Msg("X", 0, 0, TRUE, TRUE)

\* pos fields were consumed by earlier calls; returns 1 (done), 0 (need
\* more) or -1 (invalid), and the position reached
RECURSIVE pwp_handshaker_dispatch_from_buffer(_, _)
pwp_handshaker_dispatch_from_buffer(pos, toks) ==
    IF pos = HandshakeFields THEN [res |-> 1, pos |-> pos]
    ELSE IF toks = <<>> THEN [res |-> 0, pos |-> pos]
    ELSE IF (pos + 1) \in ValidatedFields /\ Head(toks) # "H"
    THEN [res |-> -1, pos |-> pos]
    ELSE pwp_handshaker_dispatch_from_buffer(pos + 1, Tail(toks))

\* sends our BITFIELD through the send callback; 0 when peer_send fails
pwp_send_bitfield(S, peer, sendOk) ==
    [S EXCEPT !.bf = @ + 1, !.ret = IF sendOk THEN 1 ELSE 0,
              !.sendres = IF sendOk THEN 1 ELSE 0]

RECURSIVE forall_giveback(_, _, _)
forall_giveback(S, peer, todo) ==
    IF todo = {} THEN S
    ELSE LET blk == CHOOSE blk \in todo : TRUE
         IN  forall_giveback(FUNC_peerconn_giveback_block(S, peer, blk),
                             peer, todo \ {blk})

\* history of invalid pieces, for the blacklist's properties
record_invalid_piece(S, idx) ==
    LET contributors == S.pdb.pieces[idx].peers IN
    IF S.wres # -1 THEN S
    ELSE IF Cardinality(contributors) = 1
    THEN [S EXCEPT !.hist.sole = @ \cup contributors]
    ELSE [S EXCEPT !.hist.multi = @ \cup {<<idx, q>> : q \in contributors}]

\* the peer connection's reaction to one parsed message (section 4.2)
pwp_conn_recv(S, peer, m) ==
    CASE m.t = "HAVE" -> FUNC_peerconn_peer_have_piece(S, peer, m.idx)
      [] m.t = "UNCHOKE" ->
            FUNC_peerconn_pollblock([S EXCEPT !.flags[peer] = @ \ {PEER_CHOKING}], peer)
      [] m.t = "CHOKE" ->
            forall_giveback([S EXCEPT !.flags[peer] = @ \cup {PEER_CHOKING},
                                      !.pending[peer] = {}],
                            peer, S.pending[peer])
      [] m.t = "PIECE" ->
            IF <<m.idx, m.b>> \notin S.pending[peer] THEN S
            ELSE FUNC_peerconn_pollblock(
                     record_invalid_piece(
                         FUNC_peerconn_pushblock(
                             [S EXCEPT !.pending[peer] = @ \ {<<m.idx, m.b>>}],
                             peer, <<m.idx, m.b>>, m.dataOk, m.ioOk),
                         m.idx),
                     peer)
      [] OTHER -> S

\* what had happened when the message handler was given the bytes
msghandler_called(S, peer) ==
    [S EXCEPT !.order =
        IF ~pwp_conn_flag_is_set(S, peer, HANDSHAKE_RECEIVED) THEN "no handshake"
        ELSE IF S.hsres = 1 /\ S.bf = 0 THEN "no bitfield"
        ELSE "ok"]

\* 1 when the bytes parse, 0 when they do not
pwp_msghandler_dispatch_from_buffer(S, peer, m) ==
    LET S1 == msghandler_called(S, peer) IN
    IF m.t = "NONE" THEN [S1 EXCEPT !.mres = 1]
    ELSE IF m.t = "X" THEN [S1 EXCEPT !.mres = 0]
    ELSE [pwp_conn_recv(S1, peer, m) EXCEPT !.mres = 1]

\* dispatch_pwp_traffic without the removal on a parse failure
dispatch_pwp_traffic_keeps_peer(S, peer, m) ==
    [pwp_msghandler_dispatch_from_buffer(S, peer, m) EXCEPT !.ret = 1]

\* "handle regular PWP traffic"
dispatch_pwp_traffic(S, peer, m) ==
    LET S1 == pwp_msghandler_dispatch_from_buffer(S, peer, m) IN
    IF S1.mres = 0
    THEN [bt_dm_remove_peer(S1, peer) EXCEPT !.ret = 1]
    ELSE [S1 EXCEPT !.ret = 1]

\* dispatch_handshake_done without pwp_conn_set_state(HANDSHAKE_RECEIVED)
dispatch_handshake_done_no_flag(S, peer, sendOk) ==
    LET S1 == [S EXCEPT !.mh[peer] = "msghandler", !.hsPos[peer] = 0]
        S2 == pwp_send_bitfield(S1, peer, sendOk)
    IN  IF 0 = S2.ret THEN bt_dm_remove_peer(S2, peer) ELSE S2

\* "handle handshake", case 1: we're done with handshaking
dispatch_handshake_done(S, peer, sendOk) ==
    LET S1 == pwp_conn_set_state([S EXCEPT !.mh[peer] = "msghandler",
                                           !.hsPos[peer] = 0],
                                 peer, HANDSHAKE_RECEIVED)
        S2 == pwp_send_bitfield(S1, peer, sendOk)
    IN  IF 0 = S2.ret THEN bt_dm_remove_peer(S2, peer) ELSE S2

bt_dm_dispatch_from_buffer(S, h, hs, sendOk, m) ==
    LET peer == bt_peermanager_nethandle_to_peer(S, h) IN
    IF peer = NULL THEN [S EXCEPT !.ret = 0]
    ELSE IF ~pwp_conn_flag_is_set(S, peer, HANDSHAKE_RECEIVED)
    THEN IF S.mh[peer] # "handshaker" THEN [S EXCEPT !.halt = TRUE]
         ELSE LET r == pwp_handshaker_dispatch_from_buffer(S.hsPos[peer], hs)
                  S1 == [S EXCEPT !.hsPos[peer] = r.pos, !.hsres = r.res]
              IN  IF r.res = 1
                  THEN dispatch_pwp_traffic(
                           dispatch_handshake_done(S1, peer, sendOk), peer, m)
                  ELSE [S1 EXCEPT !.ret = 0]
    ELSE dispatch_pwp_traffic(S, peer, m)

-----------------------------------------------------------------------------
(* Periodic work                                                           *)

\* the peer connection's tick: ask for blocks when unchoked and below the
\* request ceiling (section 4.2)
pwp_conn_periodic(S, p) ==
    LET S1 == [S EXCEPT !.log = Append(@, Event("pc", p))] IN
    IF PEER_CHOKING \notin S.flags[p]
       /\ Cardinality(S.pending[p]) < max_pending_requests
    THEN FUNC_peerconn_pollblock(S1, p)
    ELSE S1

\* __FUNC_peer_periodic without the HANDSHAKE_RECEIVED check
FUNC_peer_periodic_any_handshake(S, p) ==
    IF pwp_conn_flag_is_set(S, p, FAILED_CONNECTION) THEN S
    ELSE pwp_conn_periodic(S, p)

FUNC_peer_periodic(S, p) ==
    IF pwp_conn_flag_is_set(S, p, FAILED_CONNECTION) THEN S
    ELSE IF ~pwp_conn_flag_is_set(S, p, HANDSHAKE_RECEIVED) THEN S
    ELSE pwp_conn_periodic(S, p)

\* bt_peermanager_forall(me->pm, me, NULL, __FUNC_peer_periodic)
RECURSIVE forall_peer_periodic(_, _)
forall_peer_periodic(S, todo) ==
    IF todo = {} THEN S
    ELSE LET q == CHOOSE q \in todo : \A r \in todo : q <= r
         IN  forall_peer_periodic(FUNC_peer_periodic(S, q), todo \ {q})

-----------------------------------------------------------------------------
(* Dependency injection                                                    *)

\* for (i = 0; i < npieces; i++) if (p && bt_piece_is_complete(p)) ...
RECURSIVE check_pieces_from(_, _)
check_pieces_from(S, i) ==
    IF i >= NPieces THEN S
    ELSE IF ~S.pdb.set THEN [S EXCEPT !.halt = TRUE]
    ELSE IF bt_piece_is_complete(S.pdb.pieces[i])
    THEN check_pieces_from([S EXCEPT !.sel = selector_have_piece(@, i),
                                     !.sc = @ \cup {i},
                                     !.halt = @ \/ ~S.sel.set],
                           i + 1)
    ELSE check_pieces_from(S, i + 1)

bt_dm_check_pieces(S) == [check_pieces_from(S, 0) EXCEPT !.hist.checked = TRUE]

\* the host passes no selector instance: me->pselector = me->ips.new(0)
bt_dm_set_piece_selector(S) == bt_dm_check_pieces([S EXCEPT !.sel = NewSelector])

\* the host's piece database: `done' are the pieces it already holds complete
bt_dm_set_piece_db(S, done) ==
    [S EXCEPT !.pdb = [set |-> TRUE,
                       pieces |-> [i \in Pieces |->
                                     IF i \in done THEN CompletePiece ELSE FreshPiece]],
              !.hist.installs = @ + 1,
              !.hist.checked = FALSE]

-----------------------------------------------------------------------------
(* The state machine                                                       *)

NoLast == [op |-> "new", peer |-> NULL, ret |-> 0, hsres |-> NoResult,
           mres |-> NoResult, wres |-> NoResult, bf |-> 0, sendres |-> NoResult,
           idx |-> 0, order |-> "none"]

Done(op, peer, idx, S) ==
    [op |-> op, peer |-> peer, ret |-> S.ret, hsres |-> S.hsres, mres |-> S.mres,
     wres |-> S.wres, bf |-> S.bf, sendres |-> S.sendres, idx |-> idx,
     order |-> S.order]

\* both threads are outside the DM and me->job_lock is free
\* offered and dispatched: the jobs' peers, in the order of the calls
NoThreads == [io |-> "idle", iop |-> NULL, iom |-> NoMsg,
              dm |-> "idle", job |-> NULL, lock |-> "none",
              offered |-> <<>>, dispatched |-> <<>>]

\* bt_piecedb_new(): no piece, no piece length, no total size
bt_piecedb_new == [piece_length |-> 0, tot_file_size |-> 0, pieces |-> <<>>]

\* a unit test before its first call: a new db, a bitfield with no bit marked
NoTest == [db |-> bt_piecedb_new, adds |-> 0, bf |-> {}, polled |-> FALSE,
           pce |-> {}]

\* The next state is S.  A peer the peer manager dropped is no longer reachable
\* from the DM: its fields are not part of the state.
CommitDm(S, l) ==
    /\ ~S.halt
    /\ pm' = S.pm
    /\ nethandle' = [p \in Peers |-> IF p \in S.pm THEN S.nethandle[p] ELSE NULL]
    /\ flags' = [p \in Peers |-> IF p \in S.pm THEN S.flags[p] ELSE {}]
    /\ mh' = [p \in Peers |-> IF p \in S.pm THEN S.mh[p] ELSE "none"]
    /\ hsPos' = [p \in Peers |-> IF p \in S.pm THEN S.hsPos[p] ELSE 0]
    /\ pending' = [p \in Peers |-> IF p \in S.pm THEN S.pending[p] ELSE {}]
    /\ lchoke' = S.lchoke
    /\ sel' = S.sel
    /\ pdb' = S.pdb
    /\ sc' = S.sc
    /\ jobs' = S.jobs
    /\ suspected' = S.suspected
    /\ banned' = S.banned
    /\ haves' = S.haves
    /\ hist' = S.hist
    /\ stats' = S.stats
    /\ tick' = S.log
    /\ last' = l
    /\ test' = test

\* an entry point that runs from its call to its return with no other thread
\* in the DM
Commit(S, l) == CommitDm(S, l) /\ thr' = thr

\* bt_dm_new
Init ==
    /\ pm = {}
    /\ nethandle = [p \in Peers |-> NULL]
    /\ flags = [p \in Peers |-> {}]
    /\ mh = [p \in Peers |-> "none"]
    /\ hsPos = [p \in Peers |-> 0]
    /\ pending = [p \in Peers |-> {}]
    /\ lchoke = {}
    /\ sel = NoSelector
    /\ pdb = NoPieceDb
    /\ sc = {}
    /\ jobs = <<>>
    /\ suspected = {}
    /\ banned = {}
    /\ last = NoLast
    /\ haves = NoHaves
    /\ hist = [installs |-> 0, checked |-> FALSE, sole |-> {}, multi |-> {}]
    /\ stats = [npeers_size |-> 0, npeers |-> 0]
    /\ tick = <<>>
    /\ thr = NoThreads
    /\ test = NoTest

\* An environment bounds what the host and the remote peers do:
\*   dbs        the piece databases the host installs (their complete pieces)
\*   endpoints  the endpoints the host adds or that connect to us
\*   outbound   whether the host adds peers without a net handle
\*   answers    what the host's peer_connect callback may return
\*   handles    the net handles bytes arrive on
\*   whole      handshakes arrive whole and valid
\*   sends      what peer_send may return for our BITFIELD
\*   kinds      the messages the peers send
\*   announced  the pieces the peers announce with HAVE
\*   data       whether the data of a PIECE is good (TRUE) or corrupt (FALSE)
\*   io         whether writing a block succeeds
\*   stats      whether the host passes a stats structure to periodic()
Everything ==
    [dbs |-> SUBSET Pieces, endpoints |-> Peers, outbound |-> TRUE,
     answers |-> BOOLEAN, handles |-> NetHandles, whole |-> FALSE,
     sends |-> BOOLEAN, kinds |-> {"X", "UNCHOKE", "CHOKE", "HAVE", "PIECE"},
     announced |-> Pieces, data |-> BOOLEAN, io |-> BOOLEAN, stats |-> {FALSE}]

SetPieceDb(env) ==
    /\ hist.installs < MaxInstalls
    /\ \A p \in Peers : pending[p] = {}
    /\ \E done \in env.dbs :
          LET S == bt_dm_set_piece_db(Cur, done)
          IN  Commit(S, Done("set_piece_db", NULL, 0, S))

\* the host's construction sequence: set_piece_db, then set_piece_selector
SetUp(env) ==
    /\ hist.installs < MaxInstalls
    /\ \A p \in Peers : pending[p] = {}
    /\ \E done \in env.dbs :
          LET S == bt_dm_set_piece_selector(bt_dm_set_piece_db(Cur, done))
          IN  Commit(S, Done("set_piece_selector", NULL, 0, S))

SetPieceSelector ==
    /\ LET S == bt_dm_set_piece_selector(Cur)
       IN  Commit(S, Done("set_piece_selector", NULL, 0, S))

CheckPieces ==
    /\ LET S == bt_dm_check_pieces(Cur)
       IN  Commit(S, Done("check_pieces", NULL, 0, S))

\* the peer ids the host may give: none, or some id
PeerIds == {<<>>, <<7>>}

\* the host adds endpoint e, outbound (no net handle; the connect callback
\* answers connectOk) or with the net handle of an accepted connection
AddPeer(env) ==
    \E e \in env.endpoints, inbound \in BOOLEAN, connectOk \in BOOLEAN,
       peer_id \in PeerIds :
       LET nh == IF inbound THEN e ELSE NULL IN
       /\ nh = NULL => env.outbound /\ connectOk \in env.answers
       /\ nh # NULL => connectOk
       /\ LET S == bt_dm_add_peer(Cur, peer_id, e, nh, connectOk)
          IN  Commit(S, Done("add_peer", e, 0, S))

RemovePeer ==
    /\ \E p \in pm :
          LET S == bt_dm_remove_peer(Cur, p)
          IN  Commit(S, Done("remove_peer", p, 0, S))

PeerConnect(env) ==
    \E e \in env.endpoints :
       LET S == bt_dm_peer_connect(Cur, e, e)
       IN  Commit(S, Done("peer_connect", e, 0, S))

PeerConnectFail ==
    /\ \E h \in NetHandles :
          LET S == bt_dm_peer_connect_fail(Cur, h)
          IN  Commit(S, Done("peer_connect_fail",
                             bt_peermanager_nethandle_to_peer(Cur, h), 0, S))

HsTokens == {"H", "X"}

\* the messages a peer may send: PIECE answers one of our pending requests
Messages(p, env) ==
    {m \in {BadMsg, Msg("UNCHOKE", 0, 0, TRUE, TRUE), Msg("CHOKE", 0, 0, TRUE, TRUE)}
           \cup {Msg("HAVE", i, 0, TRUE, TRUE) : i \in env.announced}
           \cup {Msg("PIECE", blk[1], blk[2], d, io) :
                    blk \in pending[p], d \in env.data, io \in env.io} :
        m.t \in env.kinds}

\* the buffers the host may deliver for the peer of a net handle: a message
\* follows the handshake's parts only when these complete the handshake, and
\* then peer_send answers sendOk for our BITFIELD
Buffers(p, env) ==
    IF p = NULL THEN {[hs |-> <<>>, m |-> BadMsg, sendOk |-> TRUE]}
    ELSE IF HANDSHAKE_RECEIVED \in flags[p]
    THEN {[hs |-> <<>>, m |-> m, sendOk |-> TRUE] : m \in Messages(p, env)}
    ELSE LET rest == HandshakeFields - hsPos[p]
             part == UNION {[1..k -> HsTokens] : k \in 1..rest}
             full == {hs \in part :
                        pwp_handshaker_dispatch_from_buffer(hsPos[p], hs).res = 1}
         IN  {[hs |-> hs, m |-> NoMsg, sendOk |-> TRUE] :
                 hs \in IF env.whole THEN {} ELSE part \ full}
             \cup {[hs |-> hs, m |-> m, sendOk |-> ok] :
                     hs \in full, m \in {NoMsg} \cup Messages(p, env),
                     ok \in env.sends}

DispatchFromBuffer(env) ==
    \E h \in env.handles :
       LET p == bt_peermanager_nethandle_to_peer(Cur, h) IN
       \E buf \in Buffers(p, env) :
          LET S == bt_dm_dispatch_from_buffer(Cur, h, buf.hs, buf.sendOk, buf.m)
          IN  Commit(S, Done("dispatch", p, buf.m.idx, S))

\* "process jobs": the states the job loop may end in, one for every way the
\* selector may answer
RECURSIVE process_jobs(_)
process_jobs(S) ==
    IF ~(0 < Len(S.jobs)) \/ S.halt THEN {S}
    ELSE LET j == Head(S.jobs) IN
         UNION {process_jobs(dispatch_job(poll_job(S), j, choice)) :
                    choice \in dispatch_job_choices(S, j)}

\* __FUNC_peer_stats_visitor: ps = &s->peers[s->npeers++]
RECURSIVE forall_peer_stats_visitor(_, _)
forall_peer_stats_visitor(S, todo) ==
    IF todo = {} THEN S
    ELSE LET q == CHOOSE q \in todo : TRUE
         IN  forall_peer_stats_visitor([S EXCEPT !.stats.npeers = @ + 1], todo \ {q})

\* the cleanup label with the peers array sized to the peer count every time
cleanup_resized(S, withStats) ==
    IF ~withStats THEN S
    ELSE forall_peer_stats_visitor(
             [S EXCEPT !.stats = [npeers_size |-> bt_peermanager_count(S), npeers |-> 0],
                       !.log = Append(@, Event("stats", NULL))],
             S.pm)

\* the cleanup label: the stats are collected when the host passed some
cleanup(S, withStats) ==
    IF ~withStats THEN S
    ELSE LET grown == IF S.stats.npeers_size < bt_peermanager_count(S)
                      THEN bt_peermanager_count(S) ELSE S.stats.npeers_size
         IN  forall_peer_stats_visitor(
                 [S EXCEPT !.stats = [npeers_size |-> grown, npeers |-> 0],
                           !.log = Append(@, Event("stats", NULL))],
                 S.pm)

\* am_seeding and shutdown_when_complete send the tick straight to cleanup
bt_dm_periodic(S, withStats) ==
    IF 1 = am_seeding /\ 1 = shutdown_when_complete THEN {cleanup(S, withStats)}
    ELSE {cleanup(forall_peer_periodic(S1, S1.pm), withStats) : S1 \in process_jobs(S)}

Periodic(env) ==
    \E withStats \in env.stats :
       \E S \in bt_dm_periodic(Cur, withStats) :
          Commit(S, Done("periodic", NULL, 0, S))

NextIn(env) ==
    \/ SetPieceDb(env)
    \/ SetPieceSelector
    \/ CheckPieces
    \/ AddPeer(env)
    \/ RemovePeer
    \/ PeerConnect(env)
    \/ PeerConnectFail
    \/ DispatchFromBuffer(env)
    \/ Periodic(env)

\* Every entry point with every input.
Next == NextIn(Everything)

Spec == Init /\ [][Next]_vars

\* The variables of the DM and its collaborators (all but the observations).
dmVars == <<pm, nethandle, flags, mh, hsPos, pending, lchoke, sel, pdb, sc, jobs,
            suspected, banned>>

-----------------------------------------------------------------------------
(* Peer life cycle: we hold no piece and the peers send nothing but their  *)
(* handshakes and bytes that do not parse.                                 *)

PeersEnv == [Everything EXCEPT !.dbs = {{}}, !.kinds = {"X"}]

NextPeers == NextIn(PeersEnv)

SpecPeers == Init /\ [][NextPeers]_vars

\* C5: add_peer for the endpoint (my_ip, pwp_listen_port) returns null, with
\* any peer_id and with or without a net handle, and leaves the peer manager,
\* the selector and the choker as they were.
C5_SelfConnectRefused ==
    [][(last'.op = "add_peer"
        /\ EndpointIp[last'.peer] = MyIp /\ EndpointPort[last'.peer] = ListenPort)
       => (last'.ret = NULL /\ pm' = pm /\ sel' = sel /\ lchoke' = lchoke)]_vars

\* add_peer was called for ourselves while a remote peer was connected and
\* registered with the selector and the choker
C5_Witness ==
    /\ last.op = "add_peer" /\ last.peer = 1
    /\ sel.peers # {} /\ lchoke # {} /\ pm # {}

\* C8: when the message handler reports a parse failure, the peer is in
\* neither the peer manager nor the selector when dispatch_from_buffer
\* returns; for a net handle of no peer it returns 0 and changes nothing.
C8_ParseFailureRemovesPeer ==
    [][last'.op = "dispatch"
       => /\ (last'.peer # NULL /\ last'.mres = 0)
                => (last'.peer \notin pm' /\ last'.peer \notin sel'.peers)
          /\ last'.peer = NULL => (last'.ret = 0 /\ UNCHANGED dmVars)]_vars

\* a peer whose handshake was done earlier and that the selector knew sent
\* bytes that do not parse
C8_Witness ==
    /\ last.op = "dispatch" /\ last.peer # NULL
    /\ last.mres = 0 /\ last.hsres = NoResult
    /\ last.peer \notin pm /\ sel.set /\ last.peer \in lchoke

\* C10: a handshake the handshaker rejects disconnects the peer; a handshake
\* that needs more bytes leaves the peer where it was.
C10_BadHandshakeDisconnects ==
    last.op = "dispatch" =>
       /\ last.hsres = -1 => last.peer \notin pm
       /\ last.hsres = 0 => (last.peer \in pm
                             /\ HANDSHAKE_RECEIVED \notin flags[last.peer])

-----------------------------------------------------------------------------
(* Handshake: one remote peer, whose handshake arrives in parts, followed  *)
(* by peer-wire messages; our BITFIELD may fail to be sent.                *)

HandshakeEnv ==
    [Everything EXCEPT !.dbs = {{}}, !.endpoints = {3}, !.handles = {3},
                       !.kinds = {"X", "UNCHOKE", "HAVE"}]

NextHandshake ==
    \/ SetUp(HandshakeEnv)
    \/ AddPeer(HandshakeEnv)
    \/ RemovePeer
    \/ DispatchFromBuffer(HandshakeEnv)
    \/ Periodic(HandshakeEnv)

SpecHandshake == Init /\ [][NextHandshake]_vars

\* C9: the message handler is given bytes only once HANDSHAKE_RECEIVED is
\* set; in the dispatch in which the handshaker reports completion the
\* handshaker is replaced by a message handler, HANDSHAKE_RECEIVED is set
\* and our BITFIELD is sent exactly once, before the message handler is
\* given any byte; no other dispatch sends a BITFIELD.
C9_HandshakeThenBitfieldThenMessages ==
    [][(last'.op = "dispatch" /\ last'.peer # NULL)
       => /\ last'.order \in {"none", "ok"}
          /\ last'.hsres \in {0, -1} => last'.mres = NoResult
          /\ last'.hsres = 1
                => /\ last'.bf = 1
                   /\ last'.peer \in pm'
                         => /\ mh'[last'.peer] = "msghandler"
                            /\ HANDSHAKE_RECEIVED \in flags'[last'.peer]
          /\ last'.hsres # 1 => last'.bf = 0
          /\ HANDSHAKE_RECEIVED \in flags[last'.peer]
                => (last'.bf = 0 /\ last'.hsres = NoResult)]_vars

\* the handshake's last part arrived together with a HAVE, which the peer
\* connection processed after our BITFIELD was sent
C9_Witness ==
    /\ last.op = "dispatch" /\ last.hsres = 1 /\ last.bf = 1
    /\ last.order = "ok" /\ last.mres = 1
    /\ last.peer \in pm /\ sel.peerHave[last.peer] # {}

-----------------------------------------------------------------------------
(* Requests: one remote peer connects to us, announces pieces and answers  *)
(* our requests with good or corrupt data; the host may drop the peer and  *)
(* the peer may come back.                                                 *)

RequestsEnv ==
    [Everything EXCEPT !.endpoints = {3}, !.outbound = FALSE, !.handles = {3},
                       !.whole = TRUE, !.sends = {TRUE},
                       !.kinds = {"UNCHOKE", "HAVE", "PIECE"}]

NextRequests ==
    \/ SetPieceDb(RequestsEnv)
    \/ SetPieceSelector
    \/ CheckPieces
    \/ AddPeer(RequestsEnv)
    \/ RemovePeer
    \/ PeerConnect(RequestsEnv)
    \/ DispatchFromBuffer(RequestsEnv)
    \/ Periodic(RequestsEnv)

SpecRequests == Init /\ [][NextRequests]_vars

\* C1: no peer connection ever has more than max_pending_requests block
\* requests outstanding.
C1_PendingWithinCeiling ==
    \A p \in Peers : Cardinality(pending[p]) <= max_pending_requests

\* C3: once a piece database is installed, the SparseCounter marks idx
\* complete if and only if the piece at idx in the piece database is complete.
C3_CounterIffComplete ==
    pdb.set => \A i \in Pieces : i \in sc <=> bt_piece_is_complete(pdb.pieces[i])

\* C4: add_peer for a BANNED endpoint that is not connected, by the host or
\* through the peer_connect notification, returns null and leaves the
\* endpoint outside the peer manager.
C4_BannedNeverReadded ==
    [][(last'.op \in {"add_peer", "peer_connect"}
        /\ last'.peer \in banned /\ last'.peer \notin pm)
       => (last'.ret = NULL /\ last'.peer \notin pm')]_vars

\* C6: when a pushed block makes an invalid piece to which one peer
\* contributed, that peer is BANNED, every block of the piece is MISSING
\* again and the selector no longer holds the piece as handed out.
C6_SoleContributorPieceReset ==
    (last.op = "dispatch" /\ last.wres = -1
     /\ bt_piece_num_peers(pdb.pieces[last.idx]) = 1)
    => /\ last.peer \in banned
       /\ \A b \in Blocks : pdb.pieces[last.idx].blocks[b] = "MISSING"
       /\ last.idx \notin sel.polled

\* C11: when remove_peer succeeds the peer is in neither the peer manager
\* nor the selector, and every block that was requested from it is MISSING
\* again.
C11_RemovedPeerGivesBlocksBack ==
    [][(last'.op = "remove_peer" /\ last'.ret = 1)
       => /\ last'.peer \notin pm' /\ last'.peer \notin sel'.peers
          /\ \A blk \in pending[last'.peer] :
                pdb'.pieces[blk[1]].blocks[blk[2]] = "MISSING"]_vars

-----------------------------------------------------------------------------
(* Completion: two remote peers connect to us; they announce piece 0 and   *)
(* deliver good data.                                                      *)

HaveEnv ==
    [Everything EXCEPT !.dbs = {{}}, !.endpoints = {3, 4}, !.outbound = FALSE,
                       !.handles = {3, 4}, !.whole = TRUE, !.sends = {TRUE},
                       !.kinds = {"UNCHOKE", "HAVE", "PIECE"},
                       !.announced = {0}, !.data = {TRUE}, !.io = {TRUE}]

NextHave ==
    \/ SetUp(HaveEnv)
    \/ AddPeer(HaveEnv)
    \/ RemovePeer
    \/ DispatchFromBuffer(HaveEnv)
    \/ Periodic(HaveEnv)

SpecHave == Init /\ [][NextHave]_vars

\* C2: when a pushed block completes and verifies a piece, every peer in the
\* peer manager with HANDSHAKE_RECEIVED set is sent exactly one HAVE and no
\* other peer is sent any; nothing else makes the DM send a HAVE.
C2_HaveToHandshakedPeers ==
    /\ (last.op = "dispatch" /\ last.wres = 2)
          => \A q \in Peers :
                haves[q] = IF q \in pm /\ HANDSHAKE_RECEIVED \in flags[q]
                           THEN 1 ELSE 0
    /\ ~(last.op = "dispatch" /\ last.wres = 2) => haves = NoHaves

\* a piece was completed by one peer while another peer of the peer manager
\* had not yet sent its handshake
C2_Witness ==
    /\ last.op = "dispatch" /\ last.wres = 2 /\ last.idx \in sc
    /\ haves[last.peer] = 1
    /\ \E q \in pm : HANDSHAKE_RECEIVED \notin flags[q]

-----------------------------------------------------------------------------
(* Corrupt data: two remote peers connect to us and answer our requests    *)
(* with corrupt data; a peer that chokes us gives its requests back, so    *)
(* that a piece gets blocks from both.                                     *)

BlacklistEnv ==
    [Everything EXCEPT !.dbs = {{}}, !.endpoints = {3, 4}, !.outbound = FALSE,
                       !.handles = {3, 4}, !.whole = TRUE, !.sends = {TRUE},
                       !.kinds = {"UNCHOKE", "CHOKE", "HAVE", "PIECE"},
                       !.data = {FALSE}, !.io = {TRUE}]

NextBlacklist ==
    \/ SetUp(BlacklistEnv)
    \/ AddPeer(BlacklistEnv)
    \/ DispatchFromBuffer(BlacklistEnv)
    \/ Periodic(BlacklistEnv)

SpecBlacklist == Init /\ [][NextBlacklist]_vars

\* C7: the SUSPECTED edges are exactly the (piece, contributor) pairs of the
\* invalid pieces that had two or more contributors, and a peer is BANNED
\* exactly when it was the sole contributor to an invalid piece or is
\* SUSPECTED for two or more pieces.
C7_BannedExactlyByTheRule ==
    /\ suspected = hist.multi
    /\ banned = hist.sole
                 \cup {p \in Peers : Cardinality(SuspectedPieces(hist.multi, p)) >= 2}

\* both peers contributed to two invalid pieces and are banned for that
\* alone, after a state in which they were suspected and not banned
C7_Witness ==
    /\ last.op = "dispatch" /\ last.wres = -1
    /\ hist.sole = {}
    /\ banned = {3, 4}
    /\ \A p \in banned : SuspectedPieces(suspected, p) = Pieces

-----------------------------------------------------------------------------
(* Ticks: two remote peers connect to us and unchoke us; connections may   *)
(* fail; the host drops peers and collects stats.                          *)

TickEnv ==
    [Everything EXCEPT !.dbs = {{}}, !.endpoints = {3, 4}, !.outbound = FALSE,
                       !.handles = {3, 4}, !.whole = TRUE, !.sends = {TRUE},
                       !.kinds = {"UNCHOKE"}, !.stats = BOOLEAN]

NextTick ==
    \/ SetUp(TickEnv)
    \/ AddPeer(TickEnv)
    \/ RemovePeer
    \/ PeerConnectFail
    \/ DispatchFromBuffer(TickEnv)
    \/ Periodic(TickEnv)

SpecTick == Init /\ [][NextTick]_vars

\* how often the tick's log t holds the event (e, p)
Count(t, e, p) == Cardinality({i \in DOMAIN t : t[i] = Event(e, p)})

\* the last periodic() collected stats
StatsCollected(t) == t # <<>> /\ t[Len(t)].e = "stats"

C13_QueueEmptyAfterTick ==
    last.op = "periodic" => jobs = <<>>

\* C17: the capacity npeers_size never decreases; after a periodic() that was
\* given stats, npeers is the current peer count and npeers_size is at least
\* that.
C17_StatsArrayGrowsOnly ==
    [][/\ stats'.npeers_size >= stats.npeers_size
       /\ (last'.op = "periodic" /\ StatsCollected(tick'))
             => /\ stats'.npeers = Cardinality(pm')
                /\ stats'.npeers <= stats'.npeers_size]_vars

\* stats were collected for one peer after the array had grown for two
C17_Witness ==
    /\ last.op = "periodic" /\ StatsCollected(tick)
    /\ stats.npeers = 1 /\ stats.npeers_size = 2 /\ Cardinality(pm) = 1

\* C14: peer_connect_fail for a known net handle sets FAILED_CONNECTION and
\* for an unknown one changes nothing; once FAILED_CONNECTION is set, no
\* dispatch_from_buffer, peer_connect or periodic call changes a flag of that
\* peer connection or runs its pc.periodic().
C14_FailedConnectionIsTerminal ==
    [][/\ last'.op = "peer_connect_fail"
             => IF last'.peer = NULL THEN UNCHANGED dmVars
                ELSE FAILED_CONNECTION \in flags'[last'.peer]
       /\ last'.op \in {"dispatch", "peer_connect", "periodic"}
             => \A p \in pm \cap pm' :
                   FAILED_CONNECTION \in flags[p]
                      => (flags'[p] = flags[p] /\ Count(tick', "pc", p) = 0)]_vars

\* C15: a peer whose outbound connect fails in add_peer, or to which our
\* BITFIELD cannot be sent, is marked FAILED_CONNECTION and stays in the peer
\* manager.
C15_TransportErrorMarksPeer ==
    [][/\ (last'.op = "add_peer" /\ last'.ret = NULL /\ last'.peer \in pm' \ pm)
             => FAILED_CONNECTION \in flags'[last'.peer]
       /\ (last'.op = "dispatch" /\ last'.sendres = 0)
             => (last'.peer \in pm' /\ FAILED_CONNECTION \in flags'[last'.peer])]_vars

\* C15, the BITFIELD alone: a peer to which our BITFIELD cannot be sent is
\* marked FAILED_CONNECTION and stays in the peer manager.
C15_BitfieldFailureMarksPeer ==
    (last.op = "dispatch" /\ last.sendres = 0)
    => (last.peer \in pm /\ FAILED_CONNECTION \in flags[last.peer])

-----------------------------------------------------------------------------
(* Threads: the host delivers a peer's bytes on an I/O thread while the DM *)
(* thread runs periodic().  The steps of the two threads interleave;       *)
(* me->job_lock, through the host's call_exclusively, is the only mutual   *)
(* exclusion.  Peers are added and shake hands while both threads are      *)
(* outside the DM.                                                         *)

ThreadsEnv ==
    [Everything EXCEPT !.dbs = {{}}, !.endpoints = {3, 4}, !.outbound = FALSE,
                       !.handles = {3, 4}, !.whole = TRUE, !.sends = {TRUE},
                       !.kinds = {"UNCHOKE", "HAVE"}, !.announced = {0}]

\* nothing but the handshake arrives
HandshakeOnlyEnv == [ThreadsEnv EXCEPT !.kinds = {}]

Quiet == thr.io = "idle" /\ thr.dm = "idle"

dmAndObservations == <<dmVars, last, haves, hist, stats, tick, test>>

\* A mutation of the selector or of a piece that ran while the other thread
\* was inside one too is a data race: the update may be applied or lost.
Raced(S, raced) == IF raced THEN {S, Cur} ELSE {S}

\* bt_dm_dispatch_from_buffer on the I/O thread, for a peer past its
\* handshake: the message handler hands the message to the peer connection.
\* UNCHOKE leads to the pollblock callback, which waits for call_exclusively;
\* HAVE leads to the peer_have_piece callback, which calls the selector
\* directly (as the giveback_block callback of a CHOKE does).
IoBegin ==
    /\ thr.io = "idle"
    /\ \E h \in ThreadsEnv.handles :
          LET p == bt_peermanager_nethandle_to_peer(Cur, h) IN
          /\ p # NULL
          /\ HANDSHAKE_RECEIVED \in flags[p]
          /\ \E m \in Messages(p, ThreadsEnv) :
                IF m.t = "UNCHOKE"
                THEN /\ thr.lock = "none"
                     /\ thr' = [thr EXCEPT !.io = "exclusive", !.lock = "io",
                                           !.iop = p, !.iom = m]
                ELSE thr' = [thr EXCEPT !.io = "callback", !.iop = p, !.iom = m]
    /\ UNCHANGED dmAndObservations

\* the jobs that S has offered to the queue since the current state
Offered(S) == SubSeq(S.jobs, Len(jobs) + 1, Len(S.jobs))

\* the callback returns, and with it bt_dm_dispatch_from_buffer
IoEnd ==
    /\ thr.io # "idle"
    /\ \E S \in Raced(dispatch_pwp_traffic(Cur, thr.iop, thr.iom),
                      thr.io = "callback" /\ thr.dm = "dispatch") :
          /\ Len(thr.offered) + Len(Offered(S)) <= MaxOffered
          /\ CommitDm(S, Done("dispatch", thr.iop, thr.iom.idx, S))
          /\ thr' = [thr EXCEPT !.io = "idle", !.iop = NULL, !.iom = NoMsg,
                                !.lock = IF thr.io = "exclusive" THEN "none" ELSE @,
                                !.offered = @ \o Offered(S)]

\* bt_dm_periodic is called on the DM thread
DmBegin ==
    /\ thr.dm = "idle"
    /\ thr' = [thr EXCEPT !.dm = "loop"]
    /\ UNCHANGED dmAndObservations

\* while (0 < llqueue_count(me->jobs)): the count is read without the lock
DmCount ==
    /\ thr.dm = "loop" /\ 0 < Len(jobs)
    /\ thr' = [thr EXCEPT !.dm = "counted"]
    /\ UNCHANGED dmAndObservations

\* call_exclusively(..., &me->job_lock, NULL, __poll_job) gets the lock
DmLock ==
    /\ thr.dm = "counted" /\ thr.lock = "none"
    /\ thr' = [thr EXCEPT !.dm = "exclusive", !.lock = "dm"]
    /\ UNCHANGED dmAndObservations

\* __poll_job under the lock; j is NULL when the queue is empty
DmPollJob ==
    /\ thr.dm = "exclusive"
    /\ LET S == poll_job(Cur)
           j == IF jobs = <<>> THEN NULL ELSE Head(jobs)
       IN  /\ CommitDm(S, Done("poll_job", j, 0, S))
           /\ thr' = [thr EXCEPT !.dm = "job", !.job = j, !.lock = "none"]

\* __dispatch_job(me, j), after call_exclusively returned: poll_piece and
\* the piece's block requests
DmDispatchBegin ==
    /\ thr.dm = "job" /\ thr.job # NULL      \* assert(j)
    /\ thr' = [thr EXCEPT !.dm = "dispatch"]
    /\ UNCHANGED dmAndObservations

DmDispatchEnd ==
    /\ thr.dm = "dispatch"
    /\ \E choice \in dispatch_job_choices(Cur, thr.job) :
          \E S \in Raced(dispatch_job(Cur, thr.job, choice), thr.io = "callback") :
             CommitDm(S, Done("dispatch_job", thr.job, 0, S))
    /\ thr' = [thr EXCEPT !.dm = "loop", !.job = NULL,
                          !.dispatched = Append(@, thr.job)]

\* the queue is empty: the peers' pc.periodic(), whose pollblock callback
\* waits for call_exclusively, and the return of bt_dm_periodic
DmEnd ==
    /\ thr.dm = "loop" /\ Len(jobs) = 0 /\ thr.lock = "none"
    /\ LET S == cleanup(forall_peer_periodic(Cur, pm), FALSE)
       IN  /\ Len(thr.offered) + Len(Offered(S)) <= MaxOffered
           /\ CommitDm(S, Done("periodic", NULL, 0, S))
           /\ thr' = [thr EXCEPT !.dm = "idle", !.offered = @ \o Offered(S)]

NextThreads ==
    \/ Quiet /\ SetUp(ThreadsEnv)
    \/ Quiet /\ AddPeer(ThreadsEnv)
    \/ Quiet /\ DispatchFromBuffer(HandshakeOnlyEnv)
    \/ IoBegin
    \/ IoEnd
    \/ DmBegin
    \/ DmCount
    \/ DmLock
    \/ DmPollJob
    \/ DmDispatchBegin
    \/ DmDispatchEnd
    \/ DmEnd

SpecThreads == Init /\ [][NextThreads]_vars

\* C16: while the I/O thread is inside a callback that changes the selector
\* or a piece's request book-keeping, the DM thread is not inside
\* __dispatch_job changing them too, unless the I/O thread holds the
\* exclusivity token.
C16_MutationsNeverInterleave ==
    ~(thr.io = "callback" /\ thr.dm = "dispatch")

\* the job the DM thread polled and has not yet dispatched
InHand == IF thr.job = NULL THEN <<>> ELSE <<thr.job>>

\* C21: the job queue changes only in a step of the thread that holds
\* me->job_lock (or that takes and releases it within the step); the jobs
\* dispatched, the job in the DM thread's hand and the jobs in the queue are,
\* in this order, exactly the jobs offered: none is lost, duplicated or
\* reordered; and the poll of the drain loop never returns NULL.
C21_JobsAreDispatchedOnceInOrder ==
    [][/\ jobs' # jobs
          => \/ thr.lock = "io" /\ thr.io = "exclusive" /\ thr'.lock = "none"
             \/ thr.lock = "dm" /\ thr.dm = "exclusive" /\ thr'.lock = "none"
             \/ thr.lock = "none" /\ thr.dm = "loop" /\ thr'.dm = "idle"
       /\ thr'.offered = thr'.dispatched \o InHand' \o jobs'
       /\ thr'.dm \in {"job", "dispatch"} => thr'.job # NULL]_vars

\* peer 3's job was offered before peer 4's, both were dispatched, 3 first
C21_Witness ==
    /\ thr.offered = <<3, 4>> /\ thr.dispatched = <<3, 4>>
    /\ jobs = <<>> /\ thr.dm = "loop"

-----------------------------------------------------------------------------
(* The piece database, as its unit tests drive it.  A pointer to a piece   *)
(* is a set: {} is NULL, {pce} points at pce.                              *)

MaxAdds == 4
MaxTotFileSize == 12
PieceLengths == {2, 3}

Min(a, b) == IF a < b THEN a ELSE b

RECURSIVE SumSizes(_)
SumSizes(pieces) ==
    IF pieces = <<>> THEN 0 ELSE Head(pieces).size + SumSizes(Tail(pieces))

bt_piecedb_set_piece_length(db, len) == [db EXCEPT !.piece_length = len]

bt_piecedb_set_tot_file_size(db, size) == [db EXCEPT !.tot_file_size = size]

bt_piecedb_get_length(db) == Len(db.pieces)

bt_piecedb_get(db, idx) ==
    IF idx \in 0..(Len(db.pieces) - 1) THEN {db.pieces[idx + 1]} ELSE {}

bt_piece_get_idx(pce) == pce.idx

bt_piece_get_size(pce) == pce.size

\* every piece takes piece_length bytes
bt_piecedb_add_whole(db) ==
    [db EXCEPT !.pieces = Append(@, [idx |-> Len(@), size |-> db.piece_length,
                                     complete |-> FALSE])]

\* The new piece takes the next index.  It is piece_length bytes long unless
\* a total size was set and fewer bytes of it are left: the last piece fits
\* the total size.
bt_piecedb_add(db) ==
    LET left == db.tot_file_size - SumSizes(db.pieces)
        size == IF db.tot_file_size # 0 /\ left < db.piece_length
                THEN left ELSE db.piece_length
    IN  [db EXCEPT !.pieces = Append(@, [idx |-> Len(@), size |-> size,
                                         complete |-> FALSE])]

\* the poll looks at the pieces only
poll_best_ignoring_bitfield(db, bf) ==
    LET candidates == {i \in 0..(Len(db.pieces) - 1) : ~db.pieces[i + 1].complete}
    IN  IF candidates = {} THEN {{}} ELSE {{db.pieces[i + 1]} : i \in candidates}

\* The pieces the poll may return: a piece of the db that is not complete and
\* that the bitfield marks; NULL when there is none.  Which of several is
\* "best" is the db's choice.
bt_piecedb_poll_best_from_bitfield(db, bf) ==
    LET candidates == {i \in 0..(Len(db.pieces) - 1) :
                          i \in bf /\ ~db.pieces[i + 1].complete}
    IN  IF candidates = {} THEN {{}} ELSE {{db.pieces[i + 1]} : i \in candidates}

\* the DM's state: the unit tests create no download manager
dmAndThreads == <<dmVars, last, haves, hist, stats, tick, thr>>

Step(t) == test' = [t EXCEPT !.polled = FALSE, !.pce = {}] /\ UNCHANGED dmAndThreads

TestSetPieceLength ==
    /\ test.db = bt_piecedb_new
    /\ \E len \in PieceLengths :
          Step([test EXCEPT !.db = bt_piecedb_set_piece_length(@, len)])

TestSetTotFileSize ==
    /\ test.db.piece_length # 0 /\ test.db.tot_file_size = 0
    /\ test.db.pieces = <<>>
    /\ \E size \in 1..MaxTotFileSize :
          Step([test EXCEPT !.db = bt_piecedb_set_tot_file_size(@, size)])

\* the tests add the pieces of the torrent: no piece past the total size
TestAdd ==
    /\ test.db.piece_length # 0
    /\ test.adds < MaxAdds
    /\ test.db.tot_file_size # 0 => SumSizes(test.db.pieces) < test.db.tot_file_size
    /\ Step([test EXCEPT !.db = bt_piecedb_add(@), !.adds = @ + 1])

\* a piece of the db was downloaded and verified
TestPieceComplete ==
    \E i \in 1..Len(test.db.pieces) :
       /\ ~test.db.pieces[i].complete
       /\ Step([test EXCEPT !.db.pieces[i].complete = TRUE])

\* bt_bitfield_mark on a bitfield of MaxAdds bits
TestBitfieldMark ==
    \E i \in 0..(MaxAdds - 1) :
       /\ i \notin test.bf
       /\ Step([test EXCEPT !.bf = @ \cup {i}])

TestPoll ==
    /\ ~test.polled
    /\ \E pce \in bt_piecedb_poll_best_from_bitfield(test.db, test.bf) :
          test' = [test EXCEPT !.polled = TRUE, !.pce = pce]
    /\ UNCHANGED dmAndThreads

NextPieceDb ==
    \/ TestSetPieceLength
    \/ TestSetTotFileSize
    \/ TestAdd
    \/ TestPieceComplete
    \/ TestBitfieldMark
    \/ TestPoll

SpecPieceDb == Init /\ [][NextPieceDb]_vars

\* piece idx is in the db and not complete
Eligible(db, idx) == \E pce \in bt_piecedb_get(db, idx) : ~pce.complete

\* C18: the piece poll_best_from_bitfield returns is a piece of the db whose
\* index the bitfield marks; with no bit marked the poll returns NULL; with
\* exactly one bit i marked and piece i eligible it returns the piece whose
\* idx is i.
C18_PollRespectsBitfield ==
    test.polled =>
       /\ \A pce \in test.pce :
             /\ bt_piece_get_idx(pce) \in test.bf
             /\ bt_piecedb_get(test.db, bt_piece_get_idx(pce)) = {pce}
       /\ test.bf = {} => test.pce = {}
       /\ \A i \in test.bf :
             (test.bf = {i} /\ Eligible(test.db, i))
                => (test.pce # {} /\ \A pce \in test.pce : bt_piece_get_idx(pce) = i)

\* four pieces, bit 3 alone marked: the poll returned piece 3
C18_Witness ==
    /\ test.polled /\ test.bf = {3}
    /\ bt_piecedb_get_length(test.db) = 4
    /\ \E pce \in test.pce : bt_piece_get_idx(pce) = 3

\* pieces 0 and 2 are in the db and not complete, bit 1 alone is marked for
\* a complete piece: the poll returned NULL
C18_WitnessNull ==
    /\ test.polled /\ test.bf = {1} /\ test.pce = {}
    /\ bt_piecedb_get_length(test.db) = 3
    /\ Eligible(test.db, 0) /\ Eligible(test.db, 2) /\ ~Eligible(test.db, 1)

\* C19: after set_piece_length(L), set_tot_file_size(T) and n adds, piece i
\* is min(L, T - i*L) bytes long, and the sizes of the torrent's pieces sum
\* to T; get_length is the number of adds, and get(db, i) is NULL exactly for
\* the indices that were never added.
C19_LastPieceFitsTotalSize ==
    LET db == test.db
        L == db.piece_length
        T == db.tot_file_size
        n == test.adds
    IN  /\ bt_piecedb_get_length(db) = n
        /\ \A i \in 0..MaxAdds : (bt_piecedb_get(db, i) = {}) <=> (i >= n)
        /\ \A i \in 0..(n - 1) :
              \A pce \in bt_piecedb_get(db, i) :
                 /\ bt_piece_get_idx(pce) = i
                 /\ T # 0 => bt_piece_get_size(pce) = Min(L, T - i * L)
                 /\ T = 0 => bt_piece_get_size(pce) = L
        /\ (T # 0 /\ (n - 1) * L < T /\ T <= n * L) => SumSizes(db.pieces) = T

\* pieces of 3 bytes, 11 bytes in all, four adds: piece 2 has 3 bytes, piece 3
\* has 2
C19_Witness ==
    /\ test.db.piece_length = 3 /\ test.db.tot_file_size = 11 /\ test.adds = 4
    /\ \E pce \in bt_piecedb_get(test.db, 2) : bt_piece_get_size(pce) = 3
    /\ \E pce \in bt_piecedb_get(test.db, 3) : bt_piece_get_size(pce) = 2

-----------------------------------------------------------------------------
(* Giveback: a block is polled from a piece and handed to the DM's         *)
(* giveback_block callback, for the piece states that requests, received   *)
(* blocks and chokes produce.                                              *)

GivebackEnv ==
    [Everything EXCEPT !.dbs = {{}}, !.endpoints = {3}, !.outbound = FALSE,
                       !.handles = {3}, !.whole = TRUE, !.sends = {TRUE},
                       !.kinds = {"UNCHOKE", "CHOKE", "HAVE", "PIECE"},
                       !.announced = {0}, !.data = {TRUE}, !.io = {TRUE}]

\* b->len of the block handed back: negative, or the length the poll chose
BlockLens == {-1, 1}

\* bt_piece_poll_block_request(pce, &blk) on a piece with a MISSING block,
\* then the giveback_block callback for blk
PollThenGiveback ==
    \E peer \in pm, idx \in Pieces, len \in BlockLens :
       /\ pdb.set /\ sel.set
       /\ ~bt_piece_is_fully_requested(pdb.pieces[idx])
       /\ LET b == bt_piece_next_missing(pdb.pieces[idx])
              S1 == [Cur EXCEPT !.pdb.pieces[idx] = bt_piece_poll_block_request(@)]
              S == FUNC_peerconn_giveback_block(S1, peer, <<idx, b, len>>)
          IN  Commit(S, [Done(IF len < 0 THEN "poll_giveback_negative"
                                         ELSE "poll_giveback", peer, idx, S)
                            EXCEPT !.ret = b])

NextGiveback ==
    \/ SetUp(GivebackEnv)
    \/ AddPeer(GivebackEnv)
    \/ DispatchFromBuffer(GivebackEnv)
    \/ Periodic(GivebackEnv)
    \/ PollThenGiveback

SpecGiveback == Init /\ [][NextGiveback]_vars

\* C20: a poll of a block followed by the giveback_block callback for that
\* block leaves every block of every piece as it was before the poll; when
\* the block handed back has a negative len the callback changes nothing:
\* the polled block, MISSING before, stays REQUESTED, and no other block
\* changes.
C20_PollThenGivebackRestoresPiece ==
    [][/\ last'.op = "poll_giveback"
          => /\ pdb.pieces[last'.idx].blocks[last'.ret] = "MISSING"
             /\ \A i \in Pieces : pdb'.pieces[i].blocks = pdb.pieces[i].blocks
       /\ last'.op = "poll_giveback_negative"
          => /\ pdb.pieces[last'.idx].blocks[last'.ret] = "MISSING"
             /\ pdb'.pieces[last'.idx].blocks[last'.ret] = "REQUESTED"
             /\ sel' = sel
             /\ \A i \in Pieces, b \in Blocks :
                   <<i, b>> # <<last'.idx, last'.ret>>
                      => pdb'.pieces[i].blocks[b] = pdb.pieces[i].blocks[b]]_vars

\* a block was polled and given back in a piece that has a received block
C20_Witness ==
    /\ last.op = "poll_giveback"
    /\ pdb.pieces[last.idx].blocks[last.ret] = "MISSING"
    /\ \E b \in Blocks : pdb.pieces[last.idx].blocks[b] = "RECEIVED"

\* a block with negative len was handed back and stays REQUESTED
C20_WitnessNegative ==
    /\ last.op = "poll_giveback_negative"
    /\ pdb.pieces[last.idx].blocks[last.ret] = "REQUESTED"

-----------------------------------------------------------------------------
\* C22: every job that a periodic() dispatches names a peer that the peer
\* manager holds when the job is dispatched; no job of a removed peer is
\* dispatched.
C22_DispatchedJobNamesLivePeer ==
    [][last'.op = "periodic"
          => \A i \in DOMAIN tick' :
                tick'[i].e = "job" => tick'[i].p \in pm]_vars

\* C23: when our BITFIELD could not be sent and the peer was removed, the
\* rest of the call does not give that peer's message handler a message to
\* reject, which would invoke remove_peer for the peer a second time.
C23_RemovedPeerGetsNoMoreBytes ==
    (last.op = "dispatch" /\ last.sendres = 0) => last.mres # 0

\* C24: when add_peer returns NULL the peer manager, the selector and the
\* leeching choker hold the peers they held before the call; when it returns
\* a peer, the peer is in the peer manager, in the selector (when one is
\* set), in the leeching choker, and has a handshaker.
C24_AddPeerIsAllOrNothing ==
    [][last'.op = "add_peer"
          => IF last'.ret = NULL
             THEN pm' = pm /\ sel'.peers = sel.peers /\ lchoke' = lchoke
             ELSE /\ last'.ret \in pm'
                  /\ sel.set => last'.ret \in sel'.peers
                  /\ last'.ret \in lchoke'
                  /\ mh'[last'.ret] = "handshaker"]_vars

\* C25: the peer connections registered with the leeching choker are those
\* of the peers in the peer manager: no removed peer stays registered for
\* choke and unchoke decisions.
C25_ChokerHoldsThePeersOfThePeerManager == lchoke = pm

-----------------------------------------------------------------------------
(* Dispatch: __dispatch_job applied to the selector and piece database     *)
(* states it can meet.  The host may install a piece db after the selector *)
(* was set, so the selector need not know the pieces the db holds          *)
(* complete; and the db may hold no piece at an index below npieces, as    *)
(* bt_dm_check_pieces' test of get_piece's result allows for.              *)

\* ipdb.get_piece returns NULL for the index
NoPiece == [blocks |-> [b \in Blocks |-> "NONE"], bad |-> FALSE, peers |-> {}]

RequestedPiece ==
    [blocks |-> [b \in Blocks |-> "REQUESTED"], bad |-> FALSE, peers |-> {}]

PieceStates == {FreshPiece, RequestedPiece, CompletePiece, NoPiece}

\* The while (1) loop of __dispatch_job from its n-th iteration on: every
\* way it can go, with the iterations made and the way it ended.  poll_piece
\* returns some index the selector holds eligible for the peer, or -1.  With
\* pce == NULL the test pce && bt_piece_is_complete(pce) fails and
\* bt_piece_is_fully_requested(pce) reads through a null pointer: the
\* process dies, or the read yields non-zero and the loop is left.
RECURSIVE dispatch_job_loop(_, _, _)
dispatch_job_loop(S, peer, n) ==
    LET elig == selector_eligible(S.sel, peer) IN
    IF elig = {} THEN {[S |-> S, iters |-> n, end |-> "none"]}
    ELSE UNION {
           LET S1 == [S EXCEPT !.sel = selector_poll_piece(@, p_idx)]
               pce == S1.pdb.pieces[p_idx]
           IN  IF pce # NoPiece /\ bt_piece_is_complete(pce)
               THEN dispatch_job_loop(
                        [S1 EXCEPT !.sel = selector_have_piece(@, p_idx)],
                        peer, n + 1)
               ELSE IF pce = NoPiece
               THEN {[S |-> S1, iters |-> n, end |-> e] : e \in {"crash", "break"}}
               ELSE {[S |-> request_blocks(S1, peer, p_idx), iters |-> n,
                      end |-> "requested"]}
           : p_idx \in elig}

\* peer 3 is connected and unchoked us; its job is queued
InitDispatch ==
    /\ pm = {3}
    /\ nethandle = [p \in Peers |-> IF p = 3 THEN 3 ELSE NULL]
    /\ flags = [p \in Peers |-> IF p = 3 THEN {HANDSHAKE_RECEIVED} ELSE {}]
    /\ mh = [p \in Peers |-> IF p = 3 THEN "msghandler" ELSE "none"]
    /\ hsPos = [p \in Peers |-> 0]
    /\ pending = [p \in Peers |-> {}]
    /\ lchoke = {3}
    /\ \E pieces \in [Pieces -> PieceStates] :
          /\ pdb = [set |-> TRUE, pieces |-> pieces]
          /\ \E theirs \in SUBSET Pieces, polled \in SUBSET Pieces,
                have \in SUBSET {i \in Pieces : pieces[i] = CompletePiece} :
                /\ sel = [NewSelector EXCEPT !.peers = {3}, !.peerHave[3] = theirs,
                                             !.have = have, !.polled = polled]
                /\ sc = have
    /\ jobs = <<3>>
    /\ suspected = {}
    /\ banned = {}
    /\ last = NoLast
    /\ haves = NoHaves
    /\ hist = [installs |-> 1, checked |-> TRUE, sole |-> {}, multi |-> {}]
    /\ stats = [npeers_size |-> 0, npeers |-> 0]
    /\ tick = <<>>
    /\ thr = NoThreads
    /\ test = NoTest

\* the pollblock callback of a peer connection
PollBlock ==
    \E peer \in pm :
       LET S == FUNC_peerconn_pollblock(Cur, peer)
       IN  Commit(S, Done("pollblock", peer, 0, S))

\* j = __poll_job; __dispatch_job(me, j)
DispatchJob ==
    /\ 0 < Len(jobs)
    /\ pdb.set /\ sel.set
    /\ \E r \in dispatch_job_loop(poll_job(Cur), Head(jobs), 1) :
          Commit(r.S, [Done("dispatch_job", Head(jobs), 0, r.S)
                          EXCEPT !.ret = r.iters, !.order = r.end])

NextDispatch == PollBlock \/ DispatchJob

SpecDispatch == InitDispatch /\ [][NextDispatch]_vars

\* C26: a dispatch of a PollBlock job ends, after at most npieces + 1
\* iterations of its loop, because the selector returned -1 or because the
\* blocks of a piece were requested, also when the db has no piece at the
\* index the selector returned.
C26_DispatchJobTerminates ==
    last.op = "dispatch_job"
       => last.order \in {"none", "requested"} /\ last.ret <= NPieces + 1

\* whatever the db holds, the loop makes at most npieces + 1 iterations
C26_LoopIsBounded == last.op = "dispatch_job" => last.ret <= NPieces + 1

\* every piece is complete and unknown to the selector: npieces + 1 iterations
C26_LongestLoop == last.op = "dispatch_job" /\ last.ret = NPieces + 1

====
